---- MODULE Spec2Model ----
(***************************************************************************)
(* AiMenuChef: the menu-suggestion handlers (five generations) and the     *)
(* detail-recipe handler, as one state machine.  One deployment runs one   *)
(* handler with one process-wide credential; requests arrive one after the *)
(* other, each handled to its response (the handlers share no state).      *)
(*                                                                         *)
(* A JavaScript string is a sequence of symbols (a symbol stands for one   *)
(* lexical unit: a word, a punctuation mark, a blank), so that trim() and  *)
(* JSON.parse work on the text and are not identities.                     *)
(***************************************************************************)
EXTENDS Integers, Sequences, FiniteSets, TLC

(***************************************************************************)
(* JavaScript values of request fields and of the upstream reply text      *)
(***************************************************************************)
Undefined == [ty |-> "undefined", s |-> <<>>]

Str(symbols) == [ty |-> "string", s |-> symbols]

Num(digits) == [ty |-> "number", s |-> digits]

WS == " "

\* !v for the values above: undefined, "" and 0 are falsy
Falsy(v) ==
    \/ v.ty = "undefined"
    \/ v.ty = "string" /\ v.s = <<>>
    \/ v.ty = "number" /\ v.s = <<"0">>

Truthy(v) == ~Falsy(v)

RECURSIVE TrimStart(_)
TrimStart(s) ==
    IF s = <<>> THEN <<>>
    ELSE IF Head(s) = WS THEN TrimStart(Tail(s))
    ELSE s

RECURSIVE TrimEnd(_)
TrimEnd(s) ==
    IF s = <<>> THEN <<>>
    ELSE IF s[Len(s)] = WS THEN TrimEnd(SubSeq(s, 1, Len(s) - 1))
    ELSE s

\* String.prototype.trim
Trim(s) == TrimEnd(TrimStart(s))

(***************************************************************************)
(* JSON values, JSON.parse and JSON.stringify                              *)
(***************************************************************************)
JNull == [j |-> "null", a |-> "", k |-> <<>>, v |-> <<>>]

JStr(a) == [j |-> "str", a |-> a, k |-> <<>>, v |-> <<>>]

JArr(vs) == [j |-> "arr", a |-> "", k |-> <<>>, v |-> vs]

JObj(ks, vs) == [j |-> "obj", a |-> "", k |-> ks, v |-> vs]

Punct == {"[", "]", "{", "}", ",", ":"}

ParseFail == [ok |-> FALSE, val |-> JNull, rest |-> <<>>]

ParseOk(val, rest) == [ok |-> TRUE, val |-> val, rest |-> rest]

RECURSIVE ParseValue(_)
RECURSIVE ParseElements(_, _)
RECURSIVE ParseMembers(_, _, _)

\* one JSON value at the head of the text; blanks around it are skipped
ParseValue(text) ==
    LET t == TrimStart(text) IN
    IF t = <<>> THEN ParseFail
    ELSE IF Head(t) = "[" THEN
        IF TrimStart(Tail(t)) # <<>> /\ Head(TrimStart(Tail(t))) = "]"
        THEN ParseOk(JArr(<<>>), Tail(TrimStart(Tail(t))))
        ELSE ParseElements(Tail(t), <<>>)
    ELSE IF Head(t) = "{" THEN
        IF TrimStart(Tail(t)) # <<>> /\ Head(TrimStart(Tail(t))) = "}"
        THEN ParseOk(JObj(<<>>, <<>>), Tail(TrimStart(Tail(t))))
        ELSE ParseMembers(Tail(t), <<>>, <<>>)
    ELSE IF Head(t) \in Punct THEN ParseFail
    ELSE ParseOk(JStr(Head(t)), Tail(t))

\* value ("," value)* "]"
ParseElements(text, acc) ==
    LET r == ParseValue(text) IN
    IF ~r.ok THEN ParseFail
    ELSE LET t == TrimStart(r.rest) IN
         IF t = <<>> THEN ParseFail
         ELSE IF Head(t) = "," THEN ParseElements(Tail(t), Append(acc, r.val))
         ELSE IF Head(t) = "]" THEN ParseOk(JArr(Append(acc, r.val)), Tail(t))
         ELSE ParseFail

\* key ":" value ("," key ":" value)* "}"
ParseMembers(text, ks, vs) ==
    LET t == TrimStart(text) IN
    IF Len(t) < 2 \/ Head(t) \in Punct \/ Head(TrimStart(Tail(t))) # ":" THEN ParseFail
    ELSE LET r == ParseValue(Tail(TrimStart(Tail(t)))) IN
         IF ~r.ok THEN ParseFail
         ELSE LET u == TrimStart(r.rest) IN
              IF u = <<>> THEN ParseFail
              ELSE IF Head(u) = ","
                   THEN ParseMembers(Tail(u), Append(ks, Head(t)), Append(vs, r.val))
              ELSE IF Head(u) = "}"
                   THEN ParseOk(JObj(Append(ks, Head(t)), Append(vs, r.val)), Tail(u))
              ELSE ParseFail

\* JSON.parse: ok = FALSE stands for the SyntaxError it throws
JSONParse(text) ==
    LET r == ParseValue(text) IN
    IF r.ok /\ TrimStart(r.rest) = <<>>
    THEN [ok |-> TRUE, val |-> r.val]
    ELSE [ok |-> FALSE, val |-> JNull]

RECURSIVE JSONStringify(_)
RECURSIVE StringifyElements(_, _)
RECURSIVE StringifyMembers(_, _, _)

\* JSON.stringify: the text of a JSON value
JSONStringify(val) ==
    IF val.j = "str" THEN <<val.a>>
    ELSE IF val.j = "arr" THEN <<"[">> \o StringifyElements(val.v, 1) \o <<"]">>
    ELSE IF val.j = "obj" THEN <<"{">> \o StringifyMembers(val.k, val.v, 1) \o <<"}">>
    ELSE <<"null">>

StringifyElements(vs, i) ==
    IF i > Len(vs) THEN <<>>
    ELSE (IF i > 1 THEN <<",">> ELSE <<>>)
         \o JSONStringify(vs[i]) \o StringifyElements(vs, i + 1)

StringifyMembers(ks, vs, i) ==
    IF i > Len(ks) THEN <<>>
    ELSE (IF i > 1 THEN <<",">> ELSE <<>>)
         \o <<ks[i], ":">> \o JSONStringify(vs[i]) \o StringifyMembers(ks, vs, i + 1)

(***************************************************************************)
(* Requests, the deployment, and the upstream replies                      *)
(***************************************************************************)
Canvas == "api/generate.js:generateContent"

CanvasB == "unnamed/part_000:generateContent"

Opi == "opi/generate.js"

Part001 == "unnamed/part_001"

Part002 == "unnamed/part_002"

Detail == "api/generate.js:detail"

\* part_000 keeps the validation of api/generate.js (its line 13 says so)
RetryGens == {Canvas, CanvasB}

\* the generations that check the credential before anything else
KeyFirstGens == {Opi, Part002}

MenuGens == {Canvas, CanvasB, Opi, Part001, Part002}

Gens == MenuGens \cup {Detail}

Methods == {"POST", "GET", "OPTIONS"}

IngredientValues ==
    {Undefined, Str(<<>>), Str(<<WS>>), Str(<<"egg">>), Num(<<"7">>)}

ModeValues ==
    {Undefined, Str(<<"normal">>), Str(<<"healthy">>), Str(<<"health">>),
     Str(<<"allergy">>), Str(<<"vegan">>), Str(<<"constructor">>)}

AllergenValues == {Undefined, Str(<<>>), Str(<<WS>>), Str(<<"nut">>)}

DishValues == {Undefined, Str(<<>>), Str(<<"omelette">>)}

\* a request without a body: req.body is undefined
NoBody(m) ==
    [method |-> m, hasBody |-> FALSE, ingredients |-> Undefined,
     mode |-> Undefined, allergens |-> Undefined, dishName |-> Undefined]

Requests(g) ==
    {NoBody(m) : m \in Methods}
    \cup [method : Methods, hasBody : {TRUE}, ingredients : IngredientValues,
          mode : ModeValues,
          allergens : IF g = Detail THEN {Undefined} ELSE AllergenValues,
          dishName : IF g = Detail THEN DishValues ELSE {Undefined}]

NoRequest == NoBody("")

Item(level, dish) == JObj(<<"level", "dishName">>, <<JStr(level), JStr(dish)>>)

MenuA == JArr(<<Item("L1", "D1"), Item("L2", "D2"), Item("L3", "D3")>>)

MenuB == JArr(<<Item("L3", "D3"), Item("L1", "D1"), Item("L2", "D2")>>)

MenuC == JObj(<<"recipes">>, <<MenuA>>)

\* the JSON documents the upstream is asked for
Payloads == {MenuA, MenuB, MenuC}

\* candidates[0].content.parts[0].text of a 2xx reply
Texts ==
    {Undefined, Str(<<>>),
     Str(JSONStringify(MenuA)),
     Str(<<WS>> \o JSONStringify(MenuB) \o <<WS>>),
     Str(JSONStringify(MenuC)),
     Str(SubSeq(JSONStringify(MenuA), 1, Len(JSONStringify(MenuA)) - 1)),
     Str(<<"Here", WS, "you", WS, "are">>)}

\* net: fetch resolved; status: HTTP status; json: the body is a JSON document
Replies ==
    {[net |-> FALSE, status |-> 0, json |-> FALSE, text |-> Undefined]}
    \cup [net : {TRUE}, status : {503}, json : BOOLEAN, text : {Undefined}]
    \cup {[net |-> TRUE, status |-> 200, json |-> FALSE, text |-> Undefined]}
    \cup [net : {TRUE}, status : {200}, json : {TRUE}, text : Texts]

\* Response.ok
Ok(reply) == reply.status >= 200 /\ reply.status <= 299

(***************************************************************************)
(* Errors and responses                                                    *)
(***************************************************************************)
\* an Error object: what + status + text make its message, at the attempt
\* (1, 2, 3) that created it
Error(what, status, text, at) ==
    [what |-> what, status |-> status, text |-> text, at |-> at]

NoError == Error("null", 0, <<>>, 0)

Message(e) == [what |-> e.what, status |-> e.status, text |-> e.text]

NoMessage == Message(NoError)

\* res.status(s).json(body) / .send(body) / .end(); cause: the error message
\* the body's text embeds
Response(status, via, body, cause) ==
    [status |-> status, via |-> via, body |-> body, cause |-> cause]

\* what a handler does up to its first await
Respond(status, via, body, cause) ==
    [kind |-> "respond", response |-> Response(status, via, body, cause)]

Proceed == [kind |-> "proceed", response |-> Response(0, "", JNull, NoMessage)]

\* an exception no try block catches: the handler's promise rejects
Reject == [kind |-> "reject", response |-> Response(0, "", JNull, NoMessage)]

ErrorBody(field, text) == JObj(<<field>>, <<JStr(text)>>)

TypeErrorBody == Message(Error("TypeError", 0, <<>>, 0))

(***************************************************************************)
(* The prompt each handler composes: the allergen constraint it carries    *)
(* (Undefined when none) and the phrase it derives from the mode           *)
(***************************************************************************)
Prompt(constraint, label) == [constraint |-> constraint, label |-> label]

Allergy == Str(<<"allergy">>)

\* a value inside a template literal
ToText(v) == IF v.ty = "undefined" THEN Str(<<"undefined">>) ELSE Str(v.s)

validModes == {Str(<<"normal">>), Str(<<"healthy">>), Allergy}

CanvasPrompt(r) ==
    Prompt(IF r.mode = Allergy THEN r.allergens ELSE Undefined,
           IF r.mode = Str(<<"normal">>) THEN Str(<<"cheap and quick">>)
           ELSE IF r.mode = Str(<<"healthy">>) THEN Str(<<"healthy and balanced">>)
           ELSE IF r.mode = Allergy THEN Str(<<"allergens removed">>)
           ELSE Undefined)

OpiPrompt(r) ==
    Prompt(IF r.mode = Allergy /\ Truthy(r.allergens) THEN r.allergens ELSE Undefined,
           ToText(r.mode))

Part001Prompt(r) ==
    Prompt(IF r.mode = Allergy /\ Truthy(r.allergens) THEN r.allergens ELSE Undefined,
           IF r.mode = Str(<<"healthy">>) THEN Str(<<"healthy">>)
           ELSE IF r.mode = Allergy THEN Str(<<"allergy removal">>)
           ELSE Str(<<"normal">>))

\* { normal, health, allergy }[mode] || generic: a key the literal lacks is
\* looked up on Object.prototype, whose members are truthy
DetailModeDescription(mode) ==
    IF mode = Str(<<"normal">>) THEN Str(<<"normal menu">>)
    ELSE IF mode = Str(<<"health">>) THEN Str(<<"low-calorie high-protein menu">>)
    ELSE IF mode = Allergy THEN Str(<<"menu without the given foods">>)
    ELSE IF mode = Str(<<"constructor">>) THEN Str(<<"function Object() { [native code] }">>)
    ELSE Str(<<"typical menu">>)

DetailPrompt(r) == Prompt(Undefined, DetailModeDescription(r.mode))

ComposePrompt(g, r) ==
    IF g \in RetryGens THEN CanvasPrompt(r)
    ELSE IF g \in KeyFirstGens THEN OpiPrompt(r)
    ELSE IF g = Part001 THEN Part001Prompt(r)
    ELSE DetailPrompt(r)

(***************************************************************************)
(* Each handler from its entry to its first await                          *)
(***************************************************************************)
\* !x || typeof x !== 'string' || x.trim() === ""
Missing(x) == Falsy(x) \/ x.ty # "string" \/ Trim(x.s) = <<>>

\* mutant: the validModes test left out
CanvasEnterAnyMode(r, k) ==
    IF r.method # "POST"
    THEN Respond(405, "json", ErrorBody("error", "Method Not Allowed"), NoMessage)
    ELSE IF ~r.hasBody THEN Reject
    ELSE IF Missing(r.ingredients)
    THEN Respond(400, "json", ErrorBody("error", "ingredients required"), NoMessage)
    ELSE IF r.mode = Allergy /\ Missing(r.allergens)
    THEN Respond(400, "json", ErrorBody("error", "allergens required"), NoMessage)
    ELSE Proceed

\* api/generate.js generateContent: no credential is read, apiKey is ""
CanvasEnter(r, k) ==
    IF r.method # "POST"
    THEN Respond(405, "json", ErrorBody("error", "Method Not Allowed"), NoMessage)
    ELSE IF ~r.hasBody THEN Reject
    ELSE IF Missing(r.ingredients)
    THEN Respond(400, "json", ErrorBody("error", "ingredients required"), NoMessage)
    ELSE IF r.mode \notin validModes
    THEN Respond(400, "json", ErrorBody("error", "invalid mode"), NoMessage)
    ELSE IF r.mode = Allergy /\ Missing(r.allergens)
    THEN Respond(400, "json", ErrorBody("error", "allergens required"), NoMessage)
    ELSE Proceed

\* mutant: the ingredients test of opi/generate.js left out
OpiEnterNoIngredientsTest(r, k) ==
    IF ~k
    THEN Respond(500, "json", ErrorBody("error", "Internal Server Error"), NoMessage)
    ELSE IF r.method # "POST"
    THEN Respond(405, "json", ErrorBody("error", "Method Not Allowed"), NoMessage)
    ELSE IF ~r.hasBody
    THEN Respond(500, "json", ErrorBody("error", "Internal Server Error"), TypeErrorBody)
    ELSE Proceed

\* opi/generate.js and part_002
OpiEnter(r, k) ==
    IF ~k
    THEN Respond(500, "json", ErrorBody("error", "Internal Server Error"), NoMessage)
    ELSE IF r.method # "POST"
    THEN Respond(405, "json", ErrorBody("error", "Method Not Allowed"), NoMessage)
    ELSE IF ~r.hasBody
    THEN Respond(500, "json", ErrorBody("error", "Internal Server Error"), TypeErrorBody)
    ELSE IF Falsy(r.ingredients)
    THEN Respond(400, "json", ErrorBody("error", "Bad Request"), NoMessage)
    ELSE Proceed

\* mutant: the method test of part_001 left out
Part001EnterAnyMethod(r, k) ==
    IF ~r.hasBody THEN Reject
    ELSE IF Falsy(r.ingredients) \/ Falsy(r.mode)
    THEN Respond(400, "json", ErrorBody("error", "ingredients and mode required"), NoMessage)
    ELSE IF ~k
    THEN Respond(500, "json", ErrorBody("error", "server configuration error"), NoMessage)
    ELSE IF r.mode = Allergy /\ Falsy(r.allergens)
    THEN Respond(400, "json", ErrorBody("error", "allergens required"), NoMessage)
    ELSE Proceed

\* part_001
Part001Enter(r, k) ==
    IF r.method # "POST"
    THEN Respond(405, "send", JStr("Method Not Allowed"), NoMessage)
    ELSE IF ~r.hasBody THEN Reject
    ELSE IF Falsy(r.ingredients) \/ Falsy(r.mode)
    THEN Respond(400, "json", ErrorBody("error", "ingredients and mode required"), NoMessage)
    ELSE IF ~k
    THEN Respond(500, "json", ErrorBody("error", "server configuration error"), NoMessage)
    ELSE IF r.mode = Allergy /\ Falsy(r.allergens)
    THEN Respond(400, "json", ErrorBody("error", "allergens required"), NoMessage)
    ELSE Proceed

\* mutant: the preflight branch comes after the method test
DetailEnterPreflightLate(r, k) ==
    IF r.method # "POST"
    THEN Respond(405, "json", ErrorBody("message", "Method Not Allowed"), NoMessage)
    ELSE IF r.method = "OPTIONS" THEN Respond(200, "end", JNull, NoMessage)
    ELSE IF ~r.hasBody
    THEN Respond(500, "json", ErrorBody("message", "Internal Server Error"), TypeErrorBody)
    ELSE IF Falsy(r.dishName) \/ Falsy(r.ingredients)
    THEN Respond(400, "json", ErrorBody("message", "dish name and ingredients required"),
                 NoMessage)
    ELSE Proceed

\* mutant: && in place of || in the validation
DetailEnterBothMissing(r, k) ==
    IF r.method = "OPTIONS" THEN Respond(200, "end", JNull, NoMessage)
    ELSE IF r.method # "POST"
    THEN Respond(405, "json", ErrorBody("message", "Method Not Allowed"), NoMessage)
    ELSE IF ~r.hasBody
    THEN Respond(500, "json", ErrorBody("message", "Internal Server Error"), TypeErrorBody)
    ELSE IF Falsy(r.dishName) /\ Falsy(r.ingredients)
    THEN Respond(400, "json", ErrorBody("message", "dish name and ingredients required"),
                 NoMessage)
    ELSE Proceed

\* the detail-recipe handler: the SDK client reads the credential itself
DetailEnter(r, k) ==
    IF r.method = "OPTIONS" THEN Respond(200, "end", JNull, NoMessage)
    ELSE IF r.method # "POST"
    THEN Respond(405, "json", ErrorBody("message", "Method Not Allowed"), NoMessage)
    ELSE IF ~r.hasBody
    THEN Respond(500, "json", ErrorBody("message", "Internal Server Error"), TypeErrorBody)
    ELSE IF Falsy(r.dishName) \/ Falsy(r.ingredients)
    THEN Respond(400, "json", ErrorBody("message", "dish name and ingredients required"),
                 NoMessage)
    ELSE Proceed

Enter(g, r, k) ==
    IF g \in RetryGens THEN CanvasEnter(r, k)
    ELSE IF g \in KeyFirstGens THEN OpiEnter(r, k)
    ELSE IF g = Part001 THEN Part001Enter(r, k)
    ELSE DetailEnter(r, k)

CorsHeaders ==
    {<<"Access-Control-Allow-Origin", "*">>,
     <<"Access-Control-Allow-Methods", "POST, OPTIONS">>,
     <<"Access-Control-Allow-Headers", "Content-Type">>}

\* mutant: Access-Control-Allow-Headers is not set
EntryHeadersNoAllowHeaders(g) ==
    IF g = Detail
    THEN {<<"Access-Control-Allow-Origin", "*">>,
          <<"Access-Control-Allow-Methods", "POST, OPTIONS">>}
    ELSE {}

\* res.setHeader calls at the handler's entry
EntryHeaders(g) == IF g = Detail THEN CorsHeaders ELSE {}

(***************************************************************************)
(* One upstream attempt: from the settled fetch (or SDK call) to either    *)
(* the parsed payload or the error the attempt ends with                   *)
(***************************************************************************)
Success(val) == [ok |-> TRUE, val |-> val, err |-> NoError]

Failure(err) == [ok |-> FALSE, val |-> JNull, err |-> err]

\* mutant: the branch for a reply without text records no error
CanvasAttemptSilentOnMissing(g, reply, at) ==
    IF ~reply.net THEN Failure(Error("fetch failed", 0, <<>>, at))
    ELSE IF ~Ok(reply) THEN
        IF g = Canvas /\ ~reply.json
        THEN Failure(Error("SyntaxError", 0, <<>>, at))
        ELSE Failure(Error("API call error", reply.status, <<>>, at))
    ELSE IF ~reply.json THEN Failure(Error("SyntaxError", 0, <<>>, at))
    ELSE IF Truthy(reply.text) THEN
        IF JSONParse(reply.text.s).ok
        THEN Success(JSONParse(reply.text.s).val)
        ELSE Failure(Error("JSON parse failed", 0, reply.text.s, at))
    ELSE Failure(NoError)

\* mutant: the success response carries the API result, not the parsed text
CanvasAttemptRawResult(g, reply, at) ==
    IF ~reply.net THEN Failure(Error("fetch failed", 0, <<>>, at))
    ELSE IF ~Ok(reply) THEN
        IF g = Canvas /\ ~reply.json
        THEN Failure(Error("SyntaxError", 0, <<>>, at))
        ELSE Failure(Error("API call error", reply.status, <<>>, at))
    ELSE IF ~reply.json THEN Failure(Error("SyntaxError", 0, <<>>, at))
    ELSE IF Truthy(reply.text) THEN
        IF JSONParse(reply.text.s).ok
        THEN Success(JObj(<<"candidates">>, <<JArr(<<>>)>>))
        ELSE Failure(Error("JSON parse failed", 0, reply.text.s, at))
    ELSE Failure(Error("no valid content", 0, <<>>, at))

\* the retry loop's body in api/generate.js and part_000; they differ in how
\* a non-2xx body is read (apiResponse.json() rejects on a non-JSON body)
CanvasAttempt(g, reply, at) ==
    IF ~reply.net THEN Failure(Error("fetch failed", 0, <<>>, at))
    ELSE IF ~Ok(reply) THEN
        IF g = Canvas /\ ~reply.json
        THEN Failure(Error("SyntaxError", 0, <<>>, at))
        ELSE Failure(Error("API call error", reply.status, <<>>, at))
    ELSE IF ~reply.json THEN Failure(Error("SyntaxError", 0, <<>>, at))
    ELSE IF Truthy(reply.text) THEN
        IF JSONParse(reply.text.s).ok
        THEN Success(JSONParse(reply.text.s).val)
        ELSE Failure(Error("JSON parse failed", 0, reply.text.s, at))
    ELSE Failure(Error("no valid content", 0, <<>>, at))

\* mutant: only the first element of a parsed array is returned
PlainAttemptFirstItem(g, reply, at) ==
    IF ~reply.net THEN Failure(Error("fetch failed", 0, <<>>, at))
    ELSE IF ~Ok(reply) THEN Failure(Error("Gemini API error", reply.status, <<>>, at))
    ELSE IF ~reply.json THEN Failure(Error("SyntaxError", 0, <<>>, at))
    ELSE IF Falsy(reply.text) THEN Failure(Error("no JSON text", 0, <<>>, at))
    ELSE IF JSONParse(reply.text.s).ok
    THEN Success(JObj(<<"menuData">>,
                      <<IF JSONParse(reply.text.s).val.j = "arr"
                        THEN JSONParse(reply.text.s).val.v[1]
                        ELSE JSONParse(reply.text.s).val>>))
    ELSE Failure(Error("SyntaxError", 0, <<>>, at))

\* opi/generate.js, part_001 and part_002
PlainAttempt(g, reply, at) ==
    IF ~reply.net THEN Failure(Error("fetch failed", 0, <<>>, at))
    ELSE IF ~Ok(reply) THEN Failure(Error("Gemini API error", reply.status, <<>>, at))
    ELSE IF ~reply.json THEN Failure(Error("SyntaxError", 0, <<>>, at))
    ELSE IF Falsy(reply.text) THEN Failure(Error("no JSON text", 0, <<>>, at))
    ELSE IF JSONParse(reply.text.s).ok
    THEN Success(JObj(<<"menuData">>, <<JSONParse(reply.text.s).val>>))
    ELSE Failure(Error("SyntaxError", 0, <<>>, at))

\* the detail handler: the SDK throws on transport and HTTP failures
DetailAttempt(g, reply, at) ==
    IF ~reply.net \/ ~Ok(reply) \/ ~reply.json
    THEN Failure(Error("ApiError", reply.status, <<>>, at))
    ELSE IF reply.text.ty # "string" THEN Failure(Error("TypeError", 0, <<>>, at))
    ELSE IF JSONParse(Trim(reply.text.s)).ok
    THEN Success(JObj(<<"detailRecipe">>, <<JSONParse(Trim(reply.text.s)).val>>))
    ELSE Failure(Error("SyntaxError", 0, <<>>, at))

Attempt(g, reply, at) ==
    IF g \in RetryGens THEN CanvasAttempt(g, reply, at)
    ELSE IF g = Detail THEN DetailAttempt(g, reply, at)
    ELSE PlainAttempt(g, reply, at)

maxRetries == 3

RECURSIVE Pow(_, _)
\* Math.pow on naturals
Pow(b, e) == IF e = 0 THEN 1 ELSE b * Pow(b, e - 1)

\* mutant: the exponent counts attempts from 1
BackoffDelayFromOne(a) == Pow(2, a + 1) * 1000

\* const delay = Math.pow(2, attempt) * 1000
BackoffDelay(a) == Pow(2, a) * 1000

\* mutant: the last retry is given up
ShouldBackoffOnce(a) == a < maxRetries - 2

\* if (attempt < maxRetries - 1)
ShouldBackoff(a) == a < maxRetries - 1

\* for (...; attempt < maxRetries; ...): retry-enabled handlers only
LoopContinues(g, a) == g \in RetryGens /\ a < maxRetries

\* the 500 response a failed call ends in; reading null.message throws
FailureOutcome(g, err) ==
    IF err = NoError THEN Reject
    ELSE Respond(500, "json",
                 ErrorBody(IF g = Detail THEN "message" ELSE "error", "generation failed"),
                 Message(err))

Call(a) == [ev |-> "call", n |-> a]

Sleep(ms) == [ev |-> "sleep", n |-> ms]

(***************************************************************************)
(* State                                                                   *)
(***************************************************************************)
VARIABLES
    gen,        \* the handler this deployment exports
    key,        \* GEMINI_API_KEY is set in the process environment
    pc,         \* idle, entered, call, await, sleep, done, rejected
    req,        \* the request being handled
    headers,    \* response headers set so far
    attempt,    \* the retry loop's counter
    lastError,  \* the retry loop's lastError
    sent,       \* the prompts handed to the external AI service, in order
    replies,    \* what the service answered, in order
    log,        \* upstream calls and backoff sleeps, in order
    responses   \* the responses sent for this request

vars ==
    <<gen, key, pc, req, headers, attempt, lastError, sent, replies, log, responses>>

Init ==
    /\ gen \in Gens
    /\ key \in BOOLEAN
    /\ pc = "idle"
    /\ req = NoRequest
    /\ headers = {}
    /\ attempt = 0
    /\ lastError = NoError
    /\ sent = <<>>
    /\ replies = <<>>
    /\ log = <<>>
    /\ responses = <<>>

\* the hosting environment hands the next request to the handler
Invoke(r) ==
    /\ pc = "idle"
    /\ pc' = "entered"
    /\ req' = r
    /\ UNCHANGED <<gen, key, headers, attempt, lastError, sent, replies, log, responses>>

\* the invocation is over and everything it created is discarded
Return ==
    /\ pc \in {"done", "rejected"}
    /\ pc' = "idle"
    /\ req' = NoRequest
    /\ headers' = {}
    /\ attempt' = 0
    /\ lastError' = NoError
    /\ sent' = <<>>
    /\ replies' = <<>>
    /\ log' = <<>>
    /\ responses' = <<>>
    /\ UNCHANGED <<gen, key>>

\* the outcome o ends the invocation, or lets it go on to the upstream call
Conclude(o, nextPc) ==
    /\ pc' = IF o.kind = "respond" THEN "done"
             ELSE IF o.kind = "reject" THEN "rejected"
             ELSE nextPc
    /\ responses' = IF o.kind = "respond" THEN Append(responses, o.response)
                    ELSE responses

\* the handler runs from its entry to its first await
EnterHandler ==
    /\ pc = "entered"
    /\ headers' = EntryHeaders(gen)
    /\ Conclude(Enter(gen, req, key), "call")
    /\ UNCHANGED <<gen, key, req, attempt, lastError, sent, replies, log>>

\* await fetch(...) / await ai.models.generateContent(...)
CallUpstream ==
    /\ pc = "call"
    /\ sent' = Append(sent, ComposePrompt(gen, req))
    /\ log' = Append(log, Call(attempt))
    /\ pc' = "await"
    /\ UNCHANGED <<gen, key, req, headers, attempt, lastError, replies, responses>>

\* the call settles with reply; the handler runs to its next await or its end
Settle(reply) ==
    /\ pc = "await"
    /\ replies' = Append(replies, reply)
    /\ LET a == Attempt(gen, reply, attempt + 1) IN
       IF a.ok THEN
           /\ Conclude(Respond(200, "json", a.val, NoMessage), "done")
           /\ UNCHANGED <<attempt, lastError, log>>
       ELSE
           /\ lastError' = a.err
           /\ IF gen \in RetryGens /\ ShouldBackoff(attempt) THEN
                  /\ log' = Append(log, Sleep(BackoffDelay(attempt)))
                  /\ pc' = "sleep"
                  /\ UNCHANGED <<attempt, responses>>
              ELSE
                  /\ attempt' = attempt + 1
                  /\ log' = log
                  /\ IF LoopContinues(gen, attempt + 1)
                     THEN pc' = "call" /\ responses' = responses
                     ELSE Conclude(FailureOutcome(gen, a.err), "done")
    /\ UNCHANGED <<gen, key, req, headers, sent>>

\* the backoff timer fires: attempt++ and the loop test
Wake ==
    /\ pc = "sleep"
    /\ attempt' = attempt + 1
    /\ IF LoopContinues(gen, attempt + 1)
       THEN pc' = "call" /\ responses' = responses
       ELSE Conclude(FailureOutcome(gen, lastError), "done")
    /\ UNCHANGED <<gen, key, req, headers, lastError, sent, replies, log>>

Next ==
    \/ \E r \in Requests(gen) : Invoke(r)
    \/ EnterHandler
    \/ CallUpstream
    \/ \E reply \in Replies : Settle(reply)
    \/ Wake
    \/ Return

Spec == Init /\ [][Next]_vars

(***************************************************************************)
(* Vocabulary of the properties                                            *)
(***************************************************************************)
\* upstream calls made for the current request
Calls == Len(sent)

\* the invocation ended having sent exactly one response, of status st
Answered(st) == pc = "done" /\ Len(responses) = 1 /\ responses[1].status = st

\* the handler never went past its entry: no upstream call, no rejection
ShortCircuited == Calls = 0 /\ log = <<>> /\ pc \in {"entered", "done"}

\* a POST request that carries a JSON body
PostWithBody == req.method = "POST" /\ req.hasBody

\* absent or empty
AbsentOrEmpty(v) == v = Undefined \/ v = Str(<<>>)

\* a 2xx reply whose text is a parseable JSON document
Good(reply) ==
    /\ reply.net
    /\ reply.status \in 200..299
    /\ reply.json
    /\ reply.text.ty = "string"
    /\ JSONParse(reply.text.s).ok

\* a 2xx reply whose text is missing or is not valid JSON
Malformed(reply) == reply.net /\ reply.status \in 200..299 /\ ~Good(reply)

LastReply == replies[Len(replies)]

IsPrefix(p, q) == Len(p) <= Len(q) /\ SubSeq(q, 1, Len(p)) = p

(***************************************************************************)
(* C1: in every menu generation, a POST whose body has ingredients absent  *)
(* or empty is answered 400 and the external AI service is never called.   *)
(***************************************************************************)
\* the case of C1
C1_Case == gen \in MenuGens /\ PostWithBody /\ AbsentOrEmpty(req.ingredients)

C2_Case ==
    /\ gen \in MenuGens
    /\ PostWithBody
    /\ req.ingredients = Str(<<"egg">>)
    /\ req.mode = Allergy
    /\ AbsentOrEmpty(req.allergens)

\* C2 as stated, with the credential configured where it is tested. Fails on
\* opi/generate.js and part_002: they forward the request without the
\* allergen constraint.
C2_AllergyNeedsAllergens ==
    (C2_Case /\ (gen \in KeyFirstGens \/ gen = Part001 => key)) =>
        Calls = 0 /\ (pc = "done" => Answered(400))

(***************************************************************************)
(* C3: in every handler, a missing credential ends the request with 500    *)
(* and no call to the external AI service is attempted.                    *)
(***************************************************************************)
\* C3 as stated, for requests that pass the method and body validation.
\* Fails on the retry-enabled generation and on the detail handler, which
\* never look at the credential.
C3_MissingKeyShortCircuits ==
    (~key /\ Enter(gen, req, TRUE).kind = "proceed") =>
        Calls = 0 /\ (pc = "done" => Answered(500))

(***************************************************************************)
(* C4: in every menu generation a request whose method is not POST is      *)
(* answered 405 and the external AI service is not called.                 *)
(***************************************************************************)
C4_Case == gen \in MenuGens /\ req.method \in Methods \ {"POST"}

\* C4 as stated: 405 whatever the configuration. Fails: opi/generate.js and
\* part_002 answer 500 when the credential is missing, before the method test.
C4_Original == C4_Case => ShortCircuited /\ (pc = "done" => Answered(405))

\* C4 amended: 405 and no upstream call, except that the credential-first
\* generations answer 500 (still without a call) when the credential is missing.
C4_NonPostRejected ==
    C4_Case =>
        /\ ShortCircuited
        /\ pc = "done" => Answered(IF gen \in KeyFirstGens /\ ~key THEN 500 ELSE 405)

C4_Witness == C4_Case /\ Answered(405) /\ gen = Part002 /\ ~req.hasBody

(***************************************************************************)
(* C5: in the retry-enabled generation, when every attempt fails, exactly  *)
(* 3 upstream calls are made, a backoff of 1000 ms precedes the 2nd call   *)
(* and one of 2000 ms the 3rd, none follows the 3rd, and the answer is 500.*)
(***************************************************************************)
C5_Schedule == <<Call(0), Sleep(1000), Call(1), Sleep(2000), Call(2)>>

C5_AllFailed ==
    /\ gen \in RetryGens
    /\ replies # <<>>
    /\ \A i \in 1..Len(replies) : ~Good(replies[i])

\* C5: calls and sleeps always follow the schedule; a request whose attempts
\* all failed ends only after the whole schedule, with one 500 response
C5_ThreeCallsThenFail ==
    /\ gen \in RetryGens => IsPrefix(log, C5_Schedule) /\ Calls <= 3
    /\ (C5_AllFailed /\ pc \in {"done", "rejected"}) =>
           /\ log = C5_Schedule
           /\ Calls = 3
           /\ Len(replies) = 3
           /\ Answered(500)
    /\ (C5_AllFailed /\ Len(replies) = 3) => pc = "done"

C5_Witness ==
    /\ C5_AllFailed
    /\ Answered(500)
    /\ ~replies[1].net
    /\ replies[2].status = 503
    /\ Malformed(replies[3])

(***************************************************************************)
(* C6: in the retry-enabled generation, if attempt k is the first with a   *)
(* 2xx reply of parseable JSON text, the answer is 200 with that attempt's *)
(* payload after exactly k upstream calls: no call or backoff follows it.  *)
(***************************************************************************)
C6_FirstGood(k) ==
    /\ gen \in RetryGens
    /\ k \in 1..Len(replies)
    /\ Good(replies[k])
    /\ \A i \in 1..(k - 1) : ~Good(replies[i])

\* C6: the first good reply, at attempt k, is answered 200 with its parsed
\* text after exactly k calls and k - 1 sleeps; nothing follows it
C6_SuccessEndsTheLoop ==
    \A k \in 1..maxRetries :
        C6_FirstGood(k) =>
            /\ pc = "done"
            /\ responses =
                   <<Response(200, "json", JSONParse(replies[k].text.s).val, NoMessage)>>
            /\ Len(replies) = k
            /\ Calls = k
            /\ Len(log) = 2 * k - 1
            /\ log[Len(log)] = Call(k - 1)

C6_Witness ==
    /\ C6_FirstGood(2)
    /\ Answered(200)
    /\ Calls = 2
    /\ responses[1].body = MenuB

(***************************************************************************)
(* C7: a 2xx reply whose text is missing or is not valid JSON is a failed  *)
(* attempt: never answered 200, retried by the retry-enabled generation    *)
(* like any other failure, and answered 500 when no attempt is left.       *)
(***************************************************************************)
C7_Case == gen \in MenuGens /\ replies # <<>> /\ Malformed(LastReply)

\* C7: after a malformed 2xx reply the handler has sent no 200: it is backing
\* off or calling again (attempts 1 and 2 of the retry loop), or has answered 500
C7_MalformedReplyFails ==
    C7_Case =>
        IF gen \in RetryGens /\ Len(replies) < 3
        THEN /\ responses = <<>>
             /\ pc \in {"sleep", "call", "await"}
             /\ Calls \in {Len(replies), Len(replies) + 1}
             /\ Cardinality({i \in 1..Len(log) : log[i].ev = "sleep"}) = Len(replies)
             /\ pc = "sleep" => log[Len(log)] = Sleep(1000 * Len(replies))
        ELSE Answered(500)

C7_Witness ==
    /\ C7_Case
    /\ gen = Canvas
    /\ Len(replies) = 2
    /\ pc = "await"
    /\ LastReply.text = Str(<<"Here", WS, "you", WS, "are">>)

C7_WitnessNoRetry == C7_Case /\ gen = Part001 /\ Answered(500) /\ LastReply.text = Undefined

(***************************************************************************)
(* C8: for an upstream text that is a well-formed JSON payload of 3 menu   *)
(* items, the 200 response holds exactly those items, in order, unchanged, *)
(* bare (retry-enabled generation) or under menuData (the others).         *)
(***************************************************************************)
\* the payload inside a 200 body, the wrapper taken off
C8_Unwrapped(body) ==
    IF gen \in RetryGens THEN body
    ELSE IF body.j = "obj" /\ body.k = <<"menuData">> THEN body.v[1]
    ELSE JNull

\* the menu items of a payload: the array itself, or the one under recipes
C8_Items(payload) == IF payload.j = "arr" THEN payload.v ELSE payload.v[1].v

\* C8: the 200 body, unwrapped, is the document the upstream text encodes: the
\* same 3 items in the same order
C8_RoundTrip ==
    \A m \in Payloads :
        (/\ gen \in MenuGens
         /\ replies # <<>>
         /\ Good(LastReply)
         /\ Trim(LastReply.text.s) = JSONStringify(m)) =>
            /\ Answered(200)
            /\ responses[1].via = "json"
            /\ C8_Unwrapped(responses[1].body) = m
            /\ Len(C8_Items(C8_Unwrapped(responses[1].body))) = 3
            /\ \A i \in 1..3 :
                   C8_Items(C8_Unwrapped(responses[1].body))[i] = C8_Items(m)[i]

C8_Witness ==
    /\ gen = Part002
    /\ Answered(200)
    /\ LastReply.text = Str(<<WS>> \o JSONStringify(MenuB) \o <<WS>>)
    /\ responses[1].body = JObj(<<"menuData">>, <<MenuB>>)

(***************************************************************************)
(* C9: the detail handler answers an OPTIONS request, whatever its body,   *)
(* with 200, an empty body and the CORS headers, without an upstream call. *)
(***************************************************************************)
C9_Case == gen = Detail /\ req.method = "OPTIONS"

\* C9: OPTIONS ends at the entry with 200, no body, the CORS headers set
C9_Preflight ==
    C9_Case =>
        /\ ShortCircuited
        /\ pc = "done" =>
               /\ responses = <<Response(200, "end", JNull, NoMessage)>>
               /\ CorsHeaders \subseteq headers

C9_Witness == C9_Case /\ Answered(200) /\ req.hasBody /\ req.dishName = Undefined

(***************************************************************************)
(* C10: the detail handler answers a POST whose body has dishName or       *)
(* ingredients absent or empty with 400 and never calls the AI service.    *)
(***************************************************************************)
C10_Case ==
    /\ gen = Detail
    /\ PostWithBody
    /\ AbsentOrEmpty(req.dishName) \/ AbsentOrEmpty(req.ingredients)

C11_Case ==
    /\ gen \in MenuGens
    /\ PostWithBody
    /\ req.ingredients = Str(<<"egg">>)
    /\ req.mode \notin validModes

C11_Forwarded == pc \in {"call", "await", "done"} /\ (pc # "call" => Calls = 1)

C11_WitnessForwarded ==
    /\ C11_Case
    /\ gen = Part001
    /\ req.mode = Str(<<"vegan">>)
    /\ Answered(200)

(***************************************************************************)
(* C12: every response the detail handler sends, on every path (OPTIONS    *)
(* 200, 405, 400, 200 success, 500 failure), carries the three permissive  *)
(* CORS headers: they are set before any response can be sent.             *)
(***************************************************************************)
\* the three headers as the claim names them
C12_Cors ==
    {<<"Access-Control-Allow-Origin", "*">>,
     <<"Access-Control-Allow-Methods", "POST, OPTIONS">>,
     <<"Access-Control-Allow-Headers", "Content-Type">>}

\* C12: once the detail handler has run its entry the three headers are set,
\* so every response it has sent carries them; its responses are of the five
\* kinds the claim lists
C12_CorsOnEveryResponse ==
    gen = Detail =>
        /\ pc \notin {"idle", "entered"} => C12_Cors \subseteq headers
        /\ responses # <<>> => C12_Cors \subseteq headers
        /\ \A i \in 1..Len(responses) : responses[i].status \in {200, 405, 400, 500}

C12_Witness ==
    /\ gen = Detail
    /\ Answered(500)
    /\ Calls = 1
    /\ C12_Cors \subseteq headers

C12_Witness405 == gen = Detail /\ Answered(405) /\ C12_Cors \subseteq headers

(***************************************************************************)
(* C13: in the retry-enabled generation, when all 3 attempts fail, the 500 *)
(* response embeds the message of the error of the 3rd attempt, never an   *)
(* earlier one, and lastError is not null when that response is built,     *)
(* whatever the mix of thrown errors, missing text and parse failures.     *)
(***************************************************************************)
\* the request passed validation and its invocation is over
C13_Case == gen \in RetryGens /\ Calls > 0 /\ pc \in {"done", "rejected"}

\* C13: a failure response after the loop embeds the message of an error
\* created at attempt 3, the one the 3rd reply led to; the loop never ends
\* in a rejection (reading the message of a null lastError)
C13_LastErrorSurfaced ==
    C13_Case =>
        /\ pc = "done"
        /\ Len(responses) = 1
        /\ responses[1].status # 200 =>
               /\ responses[1].status = 500
               /\ Len(replies) = 3
               /\ lastError # NoError
               /\ lastError.at = 3
               /\ lastError.what # "null"
               /\ responses[1].cause = Message(lastError)
               /\ lastError = Attempt(gen, replies[3], 3).err

\* thrown error, then missing text, then a JSON parse failure
C13_Witness ==
    /\ C13_Case
    /\ Answered(500)
    /\ ~replies[1].net
    /\ replies[2].text = Str(<<>>)
    /\ responses[1].cause.what = "JSON parse failed"

(***************************************************************************)
(* C14: in the detail handler each mode of the request domain (normal,     *)
(* healthy/health, allergy) maps to its own fixed phrase, every other      *)
(* value (an absent mode too) to the generic 'typical menu' phrase, and no *)
(* mode value causes an error response.                                    *)
(***************************************************************************)
\* the phrase the claim gives each mode
C14_Phrase(mode) ==
    IF mode = Str(<<"normal">>) THEN Str(<<"normal menu">>)
    ELSE IF mode \in {Str(<<"healthy">>), Str(<<"health">>)}
    THEN Str(<<"low-calorie high-protein menu">>)
    ELSE IF mode = Allergy THEN Str(<<"menu without the given foods">>)
    ELSE Str(<<"typical menu">>)

\* the modes of the request domain, as the menu handlers and the spec name them
C14_Domain ==
    {Str(<<"normal">>), Str(<<"healthy">>), Str(<<"health">>), Allergy}

\* C14 as stated, for the modes of the request domain: the prompt sent
\* upstream carries the mode's own phrase. Fails for `healthy`: the lookup
\* table of the detail handler has the key `health` only.
C14_ModePhrases ==
    (gen = Detail /\ req.mode \in C14_Domain) =>
        \A i \in 1..Len(sent) : sent[i].label = C14_Phrase(req.mode)

\* what does hold: the mode alone never causes an error response
C14_ModeNeverAnError ==
    (gen = Detail /\ PostWithBody /\ Truthy(req.dishName) /\ Truthy(req.ingredients)) =>
        /\ pc # "rejected"
        /\ Calls = 0 => responses = <<>>

(***************************************************************************)
(* C15: every handler invocation sends exactly one response, never zero    *)
(* and never two, on every path: nothing follows a 4xx/500 short-circuit,  *)
(* a success in the retry loop ends the invocation, and every failure of   *)
(* the upstream call or of parsing ends in a single 500 response.          *)
(***************************************************************************)
\* C15 as stated: never two responses, nothing after a response, and an
\* invocation that is over has sent one. Fails: a POST without a body makes
\* api/generate.js, part_000 and part_001 throw while destructuring the
\* body, outside any try block, and no response is sent.
C15_ExactlyOneResponse ==
    /\ Len(responses) <= 1
    /\ responses # <<>> => pc = "done"
    /\ pc \in {"done", "rejected"} => Len(responses) = 1

\* what does hold: an invocation for a request that carries a body, or that
\* is handled by a generation destructuring inside its try block, ends with
\* exactly one response
C15_OneResponseWithBody ==
    /\ Len(responses) <= 1
    /\ responses # <<>> => pc = "done"
    /\ (req.hasBody \/ gen \in KeyFirstGens \cup {Detail}) =>
           (pc \in {"done", "rejected"} => Len(responses) = 1)

====
